---- MODULE Spec2Model ----
(***************************************************************************)
(* lidartools/annotations.py as a state machine.                           *)
(*                                                                         *)
(* Two independent components are modelled:                                *)
(*   - the generator get_sunrise_and_sunset_times_utc (SunSpec), one       *)
(*     action per loop iteration, the yielded pairs collected in           *)
(*     `yielded`;                                                          *)
(*   - add_approx_distance_axis and the two closures it registers on the   *)
(*     secondary axis, time_to_distance and distance_to_time (AxisSpec).   *)
(*                                                                         *)
(* Representation of time.                                                 *)
(*   A np.datetime64 handed to the generator is [day, second, ns]: the     *)
(*   day ordinal, the second of the day and the nanosecond of the second   *)
(*   (xarray hands out datetime64[ns]; the NOTE in npdt64_to_dt is about   *)
(*   exactly that).  A datetime.datetime is [day, second, microsecond], a  *)
(*   datetime.timedelta is [days, seconds, microseconds] as in CPython.    *)
(*   Year/month/day are folded into the day ordinal.                       *)
(***************************************************************************)
EXTENDS Integers, Sequences, FiniteSets

VARIABLES
    pc,          \* generator: "idle" (not called), "loop" (line 26), "done" (exhausted)
    t_start,     \* generator argument t_start (np.datetime64)
    t_end,       \* generator argument t_end (np.datetime64)
    dt_end,      \* local dt_end (datetime)
    dt_current,  \* local dt_current (datetime), the day cursor
    yielded,     \* the (time, kind) pairs yielded so far, in order
    t0,          \* add_approx_distance_axis: argument t0 (np.datetime64), closed over
    v,           \* add_approx_distance_axis: argument v, closed over
    units,       \* add_approx_distance_axis: argument units
    s,           \* add_approx_distance_axis: local s, closed over; 0 while unbound
    ax,          \* the axes object: the sequence of its secondary x-axes
    raised,      \* exception that left add_approx_distance_axis, or NoException
    call         \* the last call made through the secondary axis' transform pair

sunVars == <<pc, t_start, t_end, dt_end, dt_current, yielded>>
axisVars == <<t0, v, units, s, ax, raised, call>>
vars == <<pc, t_start, t_end, dt_end, dt_current, yielded,
          t0, v, units, s, ax, raised, call>>

(***************************************************************************)
(* Bounds of the model.                                                    *)
(***************************************************************************)
MaxDay == 2

MaxT0Second == 1

MaxXSecond == 2

MaxDistNum == 30

(***************************************************************************)
(* datetime / timedelta / datetime64 arithmetic.                           *)
(***************************************************************************)
datetime(d) == [day |-> d, second |-> 0, microsecond |-> 0]

timedelta(days, hours, minutes) ==
    [days |-> days, seconds |-> hours * 3600 + minutes * 60, microseconds |-> 0]

\* datetime + timedelta, with CPython's carry of microseconds and seconds
dt_add(dt, td) ==
    LET us == dt.microsecond + td.microseconds
        sec == dt.second + td.seconds + (us \div 1000000)
    IN  [day |-> dt.day + td.days + (sec \div 86400),
         second |-> sec % 86400,
         microsecond |-> us % 1000000]

\* datetime < datetime
dt_lt(a, b) ==
    \/ a.day < b.day
    \/ a.day = b.day /\ a.second < b.second
    \/ a.day = b.day /\ a.second = b.second /\ a.microsecond < b.microsecond

\* t.astype("<M8[us]").astype(datetime.datetime): the cast to microseconds
\* drops the sub-microsecond part of the instant
npdt64_to_dt(t) ==
    [day |-> t.day, second |-> t.second, microsecond |-> t.ns \div 1000]

\* np.datetime64(dt) of a naive datetime: a datetime64[us]
datetime64(dt) ==
    [day |-> dt.day, second |-> dt.second, ns |-> dt.microsecond * 1000]

\* the mutant of sunset_offset: the sunset placed before the sunrise
sunset_offset_swapped == timedelta(0, 9, 50)

sunrise_offset == timedelta(0, 10, 30)

sunset_offset == timedelta(0, 21, 50)

\* the mutant of one_day: the cursor never advances
one_day_stuck == timedelta(0, 0, 0)

one_day == timedelta(1, 0, 0)

(***************************************************************************)
(* Inputs: the instants the generator is called with.  Every day of the    *)
(* range, at midnight, around the two fixed offsets and in between, each   *)
(* exactly, half a microsecond later and one microsecond later.            *)
(***************************************************************************)
SecondsOfDay == {0, 37799, 37800, 43200, 78600, 82800}

SubMicro == {0, 500, 1000}

Instants ==
    {[day |-> d, second |-> sec, ns |-> n] :
        d \in 0..MaxDay, sec \in SecondsOfDay, n \in SubMicro}

NoInstant == [day |-> 0, second |-> 0, ns |-> 0]

NoDatetime == datetime(0)

NoException == "none"

NoCall == [fn |-> "none", arg |-> <<>>, ret |-> <<>>, exc |-> NoException,
           defined |-> TRUE, origin |-> <<>>]

(***************************************************************************)
(* get_sunrise_and_sunset_times_utc                                        *)
(***************************************************************************)
\* lines 20-24: the call up to the loop head
Start(start, end) ==
    /\ pc = "idle"
    /\ pc' = "loop"
    /\ t_start' = start
    /\ t_end' = end
    /\ dt_end' = npdt64_to_dt(end)
    /\ dt_current' = datetime(npdt64_to_dt(start).day)
    /\ yielded' = <<>>
    /\ UNCHANGED axisVars

\* line 30
SunriseYields(cur, sunrise, end) == dt_lt(cur, sunrise) /\ dt_lt(sunrise, end)

\* the mutant of SunsetYields: the end of the interval included
SunsetYieldsInclusive(cur, sunset, end) == dt_lt(cur, sunset) /\ ~dt_lt(end, sunset)

\* line 32
SunsetYields(cur, sunset, end) == dt_lt(cur, sunset) /\ dt_lt(sunset, end)

\* lines 26-34: one iteration of the while loop
Iterate ==
    /\ pc = "loop"
    /\ dt_lt(dt_current, dt_end)
    /\ LET dt_sunrise == dt_add(dt_current, sunrise_offset)
           dt_sunset  == dt_add(dt_current, sunset_offset)
           rise == IF SunriseYields(dt_current, dt_sunrise, dt_end)
                   THEN <<[time |-> datetime64(dt_sunrise), kind |-> "sunrise"]>>
                   ELSE <<>>
           set  == IF SunsetYields(dt_current, dt_sunset, dt_end)
                   THEN <<[time |-> datetime64(dt_sunset), kind |-> "sunset"]>>
                   ELSE <<>>
       IN  yielded' = yielded \o rise \o set
    /\ dt_current' = dt_add(dt_current, one_day)
    /\ UNCHANGED <<pc, t_start, t_end, dt_end, axisVars>>

\* line 26 false: the generator is exhausted
Exhaust ==
    /\ pc = "loop"
    /\ ~dt_lt(dt_current, dt_end)
    /\ pc' = "done"
    /\ UNCHANGED <<t_start, t_end, dt_end, dt_current, yielded, axisVars>>

Init ==
    /\ pc = "idle"
    /\ t_start = NoInstant
    /\ t_end = NoInstant
    /\ dt_end = NoDatetime
    /\ dt_current = NoDatetime
    /\ yielded = <<>>
    /\ t0 = 0
    /\ v = 0
    /\ units = ""
    /\ s = 0
    /\ ax = <<>>
    /\ raised = NoException
    /\ call = NoCall

SunNext ==
    \/ \E start \in Instants, end \in Instants : Start(start, end)
    \/ Iterate
    \/ Exhaust

SunSpec == Init /\ [][SunNext]_vars

\* the consumer's for loop keeps resuming the generator until it is exhausted
SunFairSpec == SunSpec /\ WF_vars(Iterate) /\ WF_vars(Exhaust)

(***************************************************************************)
(* add_approx_distance_axis and its transform pair.                        *)
(*                                                                         *)
(* An instant (np.datetime64) is a whole number of microseconds.  A        *)
(* matplotlib date number, the float the axis hands to the transforms, is  *)
(* a whole number of quarter microseconds, so that num2date's rounding to  *)
(* the microsecond has something to round.  A distance, a float, is an     *)
(* exact fraction [num, den] with den > 0: the arithmetic of the           *)
(* transforms is modelled without floating-point rounding error.           *)
(* np.vectorize and the array operators act element by element: a batch    *)
(* is a sequence, and the calls made here hand over the empty batch or a   *)
(* batch of one element.                                                   *)
(***************************************************************************)
\* line 60: np.datetime64(num2date(x_)); num2date rounds the date number to
\* the nearest microsecond, ties to even (np.round)
_to_dt64(x_) ==
    LET q == x_ \div 4
        r == x_ % 4
    IN  IF r < 2 THEN q
        ELSE IF r > 2 THEN q + 1
        ELSE IF q % 2 = 0 THEN q ELSE q + 1

\* the mutant of _to_dt64ms: the offset taken as microseconds
_to_dt64us(t) == t

\* line 65: np.timedelta64(t, "ms"), in microseconds
_to_dt64ms(t) == t * 1000

\* line 99: date2num(t)
date2num(t) == t * 4

\* the mutant of whole_seconds: the offset rounded to the nearest second
whole_seconds_rounded(t_offset) == (t_offset + 500000) \div 1000000

\* line 86: t_offset.astype("timedelta64[s]").astype(int); numpy's cast of a
\* timedelta to a coarser unit rounds toward minus infinity
whole_seconds(t_offset) == t_offset \div 1000000

Abs(n) == IF n < 0 THEN -n ELSE n

\* the mutant of astype_int: the quotient rounded to the nearest integer
astype_int_rounded(num, den) ==
    LET q == (2 * Abs(num) + Abs(den)) \div (2 * Abs(den))
    IN  IF (num < 0) = (den < 0) THEN q ELSE -q

\* line 98: .astype(int) of the float num / den: the fraction is cut off,
\* toward zero
astype_int(num, den) ==
    LET q == Abs(num) \div Abs(den)
    IN  IF (num < 0) = (den < 0) THEN q ELSE -q

\* the mutant of unit_scale: every unit but "m" taken for "km"
unit_scale_default(u) == IF u = "m" THEN 1 ELSE 1000

\* lines 75-80: the scale of the unit; 0 stands for the else branch, which
\* binds no scale
unit_scale(u) == IF u = "m" THEN 1 ELSE IF u = "km" THEN 1000 ELSE 0

SubSecond == {0, 1, 499999, 500000, 999999}

\* reference instants
T0s == {sec * 1000000 + us : sec \in 0..MaxT0Second, us \in SubSecond}

Velocities == {0, 3, 10}

Units == {"m", "km", "cm", "mi"}

\* date numbers: on a microsecond and a quarter, a half, three quarters after
DateNumbers ==
    {4 * (sec * 1000000 + us) + q :
        sec \in 0..MaxXSecond, us \in SubSecond, q \in 0..3}

\* distances: thousandths and millionths of the unit, of either sign
Distances ==
    {[num |-> n, den |-> d] :
        n \in (-MaxDistNum)..MaxDistNum, d \in {1000, 1000000}}

\* what a float division by zero followed by a cast to int may leave behind
UndefinedOutcomes == {"nan", "arbitrary"}

\* lines 68-103
add_approx_distance_axis(t0_, v_, units_) ==
    /\ ax = <<>>
    /\ raised = NoException
    /\ t0' = t0_
    /\ v' = v_
    /\ units' = units_
    /\ IF unit_scale(units_) = 0
       THEN /\ raised' = "NotImplementedError"
            /\ UNCHANGED <<s, ax>>
       ELSE /\ s' = unit_scale(units_)
            /\ ax' = <<[functions |-> <<"time_to_distance", "distance_to_time">>,
                        xlabel |-> units_]>>
            /\ raised' = raised
    /\ UNCHANGED <<call, sunVars>>

\* lines 82-87: the secondary axis calls time_to_distance(x)
time_to_distance(x) ==
    /\ ax # <<>>
    /\ IF Len(x) = 0
       THEN \* np.vectorize refuses an input of size 0
            call' = [fn |-> "time_to_distance", arg |-> x, ret |-> <<>>,
                     exc |-> "ValueError", defined |-> TRUE, origin |-> <<>>]
       ELSE LET x_dt     == [i \in 1..Len(x) |-> _to_dt64(x[i])]
                t_offset == [i \in 1..Len(x) |-> x_dt[i] - t0]
                x_dist   == [i \in 1..Len(x) |-> whole_seconds(t_offset[i]) * v]
            IN  call' = [fn |-> "time_to_distance", arg |-> x,
                         ret |-> [i \in 1..Len(x) |-> [num |-> x_dist[i], den |-> s]],
                         exc |-> NoException, defined |-> TRUE, origin |-> <<>>]
    /\ UNCHANGED <<t0, v, units, s, ax, raised, sunVars>>

\* lines 89-99: the secondary axis calls distance_to_time(x_dist); origin
\* keeps the date numbers a distance came from, when it is the distance the
\* last time_to_distance returned
distance_to_time(x_dist) ==
    /\ ax # <<>>
    /\ LET from == IF call.fn = "time_to_distance" /\ call.exc = NoException
                      /\ call.ret = x_dist
                   THEN call.arg ELSE <<>>
       IN  IF Len(x_dist) = 0
           THEN call' = [fn |-> "distance_to_time", arg |-> x_dist, ret |-> x_dist,
                         exc |-> NoException, defined |-> TRUE, origin |-> from]
           ELSE IF v = 0
           THEN \* x_dist * s / v is inf or nan, and its cast to int is undefined
                \E u \in UndefinedOutcomes :
                    call' = [fn |-> "distance_to_time", arg |-> x_dist,
                             ret |-> [i \in 1..Len(x_dist) |-> u],
                             exc |-> NoException, defined |-> FALSE, origin |-> from]
           ELSE LET ms == [i \in 1..Len(x_dist) |->
                              astype_int(x_dist[i].num * s * 1000, x_dist[i].den * v)]
                    t  == [i \in 1..Len(x_dist) |-> t0 + _to_dt64ms(ms[i])]
                IN  call' = [fn |-> "distance_to_time", arg |-> x_dist,
                             ret |-> [i \in 1..Len(x_dist) |-> date2num(t[i])],
                             exc |-> NoException, defined |-> TRUE, origin |-> from]
    /\ UNCHANGED <<t0, v, units, s, ax, raised, sunVars>>

AxisNext ==
    \/ \E t0_ \in T0s, v_ \in Velocities, units_ \in Units :
          add_approx_distance_axis(t0_, v_, units_)
    \/ \E x \in {<<>>} \cup {<<n>> : n \in DateNumbers} : time_to_distance(x)
    \/ \E x_dist \in {<<>>} \cup {<<d>> : d \in Distances} : distance_to_time(x_dist)
    \/ call.fn = "time_to_distance" /\ call.exc = NoException
       /\ distance_to_time(call.ret)

AxisSpec == Init /\ [][AxisNext]_vars


(***************************************************************************)
(* Claims about get_sunrise_and_sunset_times_utc.                          *)
(***************************************************************************)
\* datetime64 < datetime64
dt64_lt(a, b) ==
    \/ a.day < b.day
    \/ a.day = b.day /\ a.second < b.second
    \/ a.day = b.day /\ a.second = b.second /\ a.ns < b.ns

\* t_end as the loop sees it: cut to whole microseconds
EndInMicroseconds == datetime64(npdt64_to_dt(t_end))

\* the k-th element (k = 0, 1, ...) of the fixed series that starts on day d0:
\* d0 10:30 sunrise, d0 21:50 sunset, d0+1 10:30 sunrise, ...
SeriesElement(d0, k) ==
    [time |-> [day |-> d0 + (k \div 2),
               second |-> IF k % 2 = 0 THEN 37800 ELSE 78600,
               ns |-> 0],
     kind |-> IF k % 2 = 0 THEN "sunrise" ELSE "sunset"]

\* in order, the elements of the series whose instant is before `bound`
SeriesBefore(d0, bound) ==
    LET n == Cardinality({k \in 0..(2 * (bound.day - d0) + 1) :
                             dt64_lt(SeriesElement(d0, k).time, bound)})
    IN  [i \in 1..n |-> SeriesElement(d0, i - 1)]

\* C1 (as claimed): every yielded instant lies strictly between t_start and
\* t_end; in particular nothing earlier than t_start is yielded.
C1_EventsStrictlyInside ==
    \A i \in 1..Len(yielded) :
        /\ dt64_lt(t_start, yielded[i].time)
        /\ dt64_lt(yielded[i].time, t_end)

\* C2 (as claimed): a call with t_end <= t_start yields nothing.
C2_EmptyIntervalYieldsNothing ==
    (pc = "done" /\ ~dt64_lt(t_start, t_end)) => yielded = <<>>

\* the last calendar day the interval reaches into: an end at exactly
\* midnight belongs to the day before
LastDay == IF t_end.second = 0 /\ t_end.ns = 0 THEN t_end.day - 1 ELSE t_end.day

NDays == LastDay - t_start.day + 1

SunriseOf(d) == [day |-> d, second |-> 37800, ns |-> 0]

SunsetOf(d) == [day |-> d, second |-> 78600, ns |-> 0]

StartsBySunrise == ~dt64_lt(SunriseOf(t_start.day), t_start)

TwoPerDayAlternating ==
    /\ Len(yielded) = 2 * NDays
    /\ \A i \in 1..Len(yielded) :
          yielded[i].kind = (IF i % 2 = 1 THEN "sunrise" ELSE "sunset")
    /\ \A i \in 1..(Len(yielded) - 1) :
          dt64_lt(yielded[i].time, yielded[i + 1].time)

\* C3 (as claimed): start at or before 10:30 of the first day and end at or
\* after 21:50 of the last of N days give exactly 2N events, alternating
\* sunrise, sunset, in strictly increasing order.
C3_FullDaysAtOrAfterSunset ==
    (/\ pc = "done"
     /\ NDays >= 1
     /\ StartsBySunrise
     /\ ~dt64_lt(t_end, SunsetOf(LastDay)))
    => TwoPerDayAlternating

\* C3 (amended): the same, for an end that, cut to whole microseconds, is
\* strictly after 21:50 of the last day.
C3_FullDaysAfterSunset ==
    (/\ pc = "done"
     /\ NDays >= 1
     /\ StartsBySunrise
     /\ dt64_lt(SunsetOf(LastDay), EndInMicroseconds))
    => TwoPerDayAlternating

\* two full days, four events; and a start at 10:30 exactly
C3_Witness ==
    /\ pc = "done"
    /\ NDays = 2
    /\ t_start.second = 37800
    /\ dt64_lt(SunsetOf(LastDay), EndInMicroseconds)
    /\ Len(yielded) = 4

\* C7: the loop terminates.  The cursor starts at midnight of t_start's day,
\* every iteration moves it by exactly one day and is taken only while the
\* cursor is before t_end, a cursor at or after t_end ends the generator, and
\* every call reaches exhaustion.
C7_LoopTerminates ==
    /\ [][(pc = "idle" /\ pc' = "loop") =>
            dt_current' = [day |-> t_start'.day, second |-> 0, microsecond |-> 0]]_vars
    /\ [][(pc = "loop" /\ pc' = "loop") =>
            /\ dt_current' = [dt_current EXCEPT !.day = @ + 1]
            /\ dt64_lt(datetime64(dt_current), t_end)]_vars
    /\ [][(pc = "loop" /\ ~dt64_lt(datetime64(dt_current), t_end)) => pc' = "done"]_vars
    /\ (pc = "loop") ~> (pc = "done")

\* exhausted after three iterations
C7_Witness ==
    /\ pc = "done"
    /\ dt_current.day = t_start.day + 3
    /\ Len(yielded) = 6

Called == ax # <<>> \/ raised # NoException

\* C6: the scale is 1 for "m" and 1000 for "km", and the axis is registered
\* with the transform pair; any other unit raises NotImplementedError with no
\* secondary axis created and no scale bound.
C6_UnitScaleOrFailFast ==
    Called =>
        IF units = "m" \/ units = "km"
        THEN /\ s = (IF units = "m" THEN 1 ELSE 1000)
             /\ raised = NoException
             /\ Len(ax) = 1
             /\ ax[1].functions = <<"time_to_distance", "distance_to_time">>
             /\ ax[1].xlabel = units
        ELSE /\ raised = "NotImplementedError"
             /\ ax = <<>>
             /\ s = 0
             /\ call = NoCall

\* "cm" is refused and ax is left as it was
C6_Witness == raised = "NotImplementedError" /\ units = "cm" /\ ax = <<>>

\* C5 (as claimed): with v = 0, time_to_distance raises the zero-velocity
\* error for every input instead of returning a distance.
C5_ZeroVelocityRejected ==
    (call.fn = "time_to_distance" /\ v = 0) => call.exc = "ZeroDivisionError"

\* time_to_distance returned for a batch of one date number
Returned == call.fn = "time_to_distance" /\ call.exc = NoException

\* the instant the date number handed to time_to_distance denotes
CallInstant == _to_dt64(call.arg[1])

RoundTrip ==
    /\ call.fn = "distance_to_time"
    /\ call.origin # <<>>
    /\ v = 10
    /\ units = "m"
    /\ _to_dt64(call.origin[1]) >= t0

\* C4 (as claimed): distance_to_time(time_to_distance(t)) is t cut to whole
\* seconds.
C4_RoundTripWholeSecondsOfT ==
    RoundTrip =>
        call.ret = <<date2num((_to_dt64(call.origin[1]) \div 1000000) * 1000000)>>

\* C4 (amended): distance_to_time(time_to_distance(t)) is t0 plus the elapsed
\* time t - t0 cut to whole seconds: the instant r with r - t0 a whole number
\* of seconds and r <= t < r + 1 s.
C4_RoundTripWholeSecondsSinceT0 ==
    RoundTrip =>
        \E n \in 0..(MaxXSecond + 1) :
            LET r == t0 + n * 1000000
            IN  /\ r <= _to_dt64(call.origin[1])
                /\ _to_dt64(call.origin[1]) < r + 1000000
                /\ call.ret = <<date2num(r)>>

\* t0 half a second into a second: 2.499999 s comes back as 1.5 s, not 2 s
C4_Witness ==
    /\ RoundTrip
    /\ t0 = 500000
    /\ _to_dt64(call.origin[1]) = 2499999
    /\ call.ret = <<date2num(1500000)>>

\* distance_to_time was called with one distance and a velocity other than 0
Converted == call.fn = "distance_to_time" /\ call.arg # <<>> /\ call.defined

\* the millisecond offset (d * s / v) * 1000 of the call, as numerator and
\* denominator
OffsetNum == call.arg[1].num * s * 1000

OffsetDen == call.arg[1].den * v

\* the whole number n of milliseconds with call.ret = date2num(t0 + n ms)
ReturnedMs == ((call.ret[1] \div 4) - t0) \div 1000

\* C8 (as claimed): distance_to_time(d) is t0 plus the millisecond offset
\* rounded to the nearest integer.
C8_OffsetRounded ==
    Converted =>
        /\ call.ret = <<date2num(t0 + ReturnedMs * 1000)>>
        /\ 2 * Abs(OffsetNum - ReturnedMs * OffsetDen) <= OffsetDen

\* C8 (amended): distance_to_time(d) is t0 plus the millisecond offset with
\* its fraction cut off, toward zero.
C8_OffsetTruncated ==
    Converted =>
        /\ call.ret = <<date2num(t0 + ReturnedMs * 1000)>>
        /\ Abs(ReturnedMs) * OffsetDen <= Abs(OffsetNum)
        /\ Abs(OffsetNum) < (Abs(ReturnedMs) + 1) * OffsetDen
        /\ \/ ReturnedMs = 0
           \/ ReturnedMs > 0 /\ OffsetNum > 0
           \/ ReturnedMs < 0 /\ OffsetNum < 0

\* d = 0.027 m at 10 m/s is 2.7 ms and comes back as t0 + 2 ms
C8_Witness ==
    /\ Converted
    /\ v = 10
    /\ units = "m"
    /\ call.arg = <<[num |-> 27, den |-> 1000]>>
    /\ call.ret = <<date2num(t0 + 2000)>>

====
